---- MODULE Spec2Model ----
(***************************************************************************)
(* Model of the portfolio scraper: the run orchestrator                    *)
(* (src/src/main.py), the browser session provider                         *)
(* (src/src/services/browser_service.py), the extraction agent             *)
(* (src/src/agents/portfolio_agent.py), the configuration readers          *)
(* (src/src/config/settings.py) and the persistence writer                 *)
(* (src/src/services/influx_service.py).                                   *)
(*                                                                         *)
(* Spec        one process started through main(): run_portfolio_scraper.  *)
(* SpecWriter  one direct call of InfluxService.write_portfolio_data with  *)
(*             arbitrary arguments.                                        *)
(***************************************************************************)
EXTENDS Integers, Sequences, FiniteSets, TLC

(***************************************************************************)
(* Bounds of the model.                                                    *)
(***************************************************************************)
\* longest top_5_holdings list the agent returns
MaxHoldings == 2
\* longest top_5_platforms list the agent returns
MaxPlatforms == 1
\* longest raw text, in runs of equally wide characters
MaxRuns == 2
\* the wall clock advances at most this many ticks during a run
MaxClock == 1
\* longest list of one repeated item in a final result of the structured run
MaxListLen == 6

(***************************************************************************)
(* Program constants.                                                      *)
(***************************************************************************)
\* data[:65000] in write_raw_portfolio_data
RawFieldLimit == 65000

SeqsUpTo(S, n) == UNION {[1..k -> S] : k \in 0..n}

(***************************************************************************)
(* Text.  A Python str is a sequence of code points; encoded (UTF-8) each  *)
(* code point takes 1..4 bytes.  A text is modelled as a sequence of runs, *)
(* a run being `count` code points that each encode to `width` bytes, so   *)
(* that texts around the 65,000 limit stay small values.                   *)
(***************************************************************************)
Run(w, c) == [width |-> w, count |-> c]

\* RawFieldLimit one-byte code points; one two-byte code point
RunPool == {Run(1, RawFieldLimit), Run(2, 1)}

\* texts in canonical form: neighbouring runs differ in width
Texts ==
    {s \in SeqsUpTo(RunPool, MaxRuns) :
        \A i \in 1..(Len(s) - 1) : s[i].width # s[i + 1].width}

RECURSIVE CharLen(_)
CharLen(s) == IF s = <<>> THEN 0 ELSE Head(s).count + CharLen(Tail(s))

RECURSIVE ByteLen(_)
ByteLen(s) ==
    IF s = <<>> THEN 0 ELSE Head(s).width * Head(s).count + ByteLen(Tail(s))

\* s[:n] of a Python str: the first n code points
RECURSIVE Slice(_, _)
Slice(s, n) ==
    IF s = <<>> \/ n <= 0 THEN <<>>
    ELSE IF Head(s).count <= n
         THEN <<Head(s)>> \o Slice(Tail(s), n - Head(s).count)
         ELSE <<Run(Head(s).width, n)>>

\* p is s[:k] for some k
IsCharPrefix(p, s) == p = Slice(s, CharLen(p))

(***************************************************************************)
(* Schema model (influx_service.py, Asset / Platform / NetWorth / Wealth). *)
(***************************************************************************)
AssetPool ==
    {[asset |-> "USDC", value |-> 120, percentage |-> 40],
     [asset |-> "wSOL", value |-> 80, percentage |-> 27]}

PlatformPool ==
    {[platform |-> "Kamino", value |-> 200, percentage |-> 66],
     [platform |-> "Drift", value |-> 101, percentage |-> 34]}

NetWorthPool == {[net_worth |-> 301, sol_equivalent |-> 2]}

Wealth(h, nw, p) ==
    [top_5_holdings |-> h, net_worth |-> nw, top_5_platforms |-> p]

Wealths ==
    {Wealth(h, nw, p) : h \in SeqsUpTo(AssetPool, MaxHoldings),
                        nw \in NetWorthPool,
                        p \in SeqsUpTo(PlatformPool, MaxPlatforms)}

NoWealth == Wealth(<<>>, [net_worth |-> 0, sol_equivalent |-> 0], <<>>)

(***************************************************************************)
(* The final result of the structured agent run is a text; when it is JSON *)
(* it is modelled by the document it denotes.  A member that the schema    *)
(* declares `float` is a JSON number, a string that spells a number, some  *)
(* other text, or absent; a member declared `str` is a JSON string, a JSON *)
(* number, or absent; an object or a list is present or absent.            *)
(***************************************************************************)
JNumber(v) == [t |-> "number", v |-> v]
JString(x) == [t |-> "string", s |-> x]
JAsset(a) ==
    [asset |-> JString(a.asset), value |-> JNumber(a.value),
     percentage |-> JNumber(a.percentage)]
JPlatform(q) ==
    [platform |-> JString(q.platform), value |-> JNumber(q.value),
     percentage |-> JNumber(q.percentage)]

\* Wealth.model_dump_json: the document of a Wealth, every member present and
\* every number a JSON number
DocOf(w) ==
    [top_5_holdings |->
        [present |-> TRUE,
         items |-> [i \in 1..Len(w.top_5_holdings) |-> JAsset(w.top_5_holdings[i])]],
     net_worth |->
        [present |-> TRUE,
         net_worth |-> JNumber(w.net_worth.net_worth),
         sol_equivalent |-> JNumber(w.net_worth.sol_equivalent)],
     top_5_platforms |->
        [present |-> TRUE,
         items |-> [i \in 1..Len(w.top_5_platforms) |-> JPlatform(w.top_5_platforms[i])]]]

\* a Wealth of one holding and one platform
BaseWealth ==
    Wealth(<<[asset |-> "USDC", value |-> 120, percentage |-> 40]>>,
           [net_worth |-> 301, sol_equivalent |-> 2],
           <<[platform |-> "Kamino", value |-> 200, percentage |-> 66]>>)

\* documents that differ from the document of BaseWealth in one place: an
\* object or a list absent, a name absent or a number, a `float` member
\* written as a string, written as text, or absent
OffSchemaDocs ==
    LET d == DocOf(BaseWealth) IN
    {[d EXCEPT !.net_worth.present = FALSE],
     [d EXCEPT !.top_5_holdings.present = FALSE],
     [d EXCEPT !.top_5_platforms.present = FALSE],
     [d EXCEPT !.top_5_holdings.items[1].asset.t = "absent"],
     [d EXCEPT !.top_5_holdings.items[1].asset.t = "number"],
     [d EXCEPT !.top_5_platforms.items[1].platform.t = "absent"],
     [d EXCEPT !.top_5_platforms.items[1].platform.t = "number"]} \cup
    UNION {{[d EXCEPT !.net_worth.net_worth.t = k],
            [d EXCEPT !.net_worth.sol_equivalent.t = k],
            [d EXCEPT !.top_5_holdings.items[1].value.t = k],
            [d EXCEPT !.top_5_holdings.items[1].percentage.t = k],
            [d EXCEPT !.top_5_platforms.items[1].value.t = k],
            [d EXCEPT !.top_5_platforms.items[1].percentage.t = k]} :
           k \in {"numeric string", "text", "absent"}}

\* pydantic validation of a member declared `float` (Asset.value, ...): a
\* JSON number, and a string that spells a number, which is converted
FloatAccepts(x) == x.t \in {"number", "numeric string"}

\* pydantic validation of a member declared `str` (Asset.asset,
\* Platform.platform): a JSON string only
StrAccepts(x) == x.t = "string"

AssetValid(a) ==
    StrAccepts(a.asset) /\ FloatAccepts(a.value) /\ FloatAccepts(a.percentage)

PlatformValid(q) ==
    StrAccepts(q.platform) /\ FloatAccepts(q.value) /\ FloatAccepts(q.percentage)

NetWorthValid(n) ==
    n.present /\ FloatAccepts(n.net_worth) /\ FloatAccepts(n.sol_equivalent)

\* Wealth.model_validate_json does not raise: the three members are there
\* and every item validates; List[Asset] and List[Platform] take any length
WealthValid(d) ==
    /\ d.top_5_holdings.present
    /\ \A i \in 1..Len(d.top_5_holdings.items) : AssetValid(d.top_5_holdings.items[i])
    /\ NetWorthValid(d.net_worth)
    /\ d.top_5_platforms.present
    /\ \A i \in 1..Len(d.top_5_platforms.items) : PlatformValid(d.top_5_platforms.items[i])

\* the Wealth that Wealth.model_validate_json builds from a document
WealthFrom(d) ==
    Wealth([i \in 1..Len(d.top_5_holdings.items) |->
                [asset |-> d.top_5_holdings.items[i].asset.s,
                 value |-> d.top_5_holdings.items[i].value.v,
                 percentage |-> d.top_5_holdings.items[i].percentage.v]],
           [net_worth |-> d.net_worth.net_worth.v,
            sol_equivalent |-> d.net_worth.sol_equivalent.v],
           [i \in 1..Len(d.top_5_platforms.items) |->
                [platform |-> d.top_5_platforms.items[i].platform.s,
                 value |-> d.top_5_platforms.items[i].value.v,
                 percentage |-> d.top_5_platforms.items[i].percentage.v]])

\* history.final_result(): None, "", a text that is no JSON, a JSON document
Final(k, d) == [kind |-> k, doc |-> d]
NoFinal == Final("none", DocOf(NoWealth))

(***************************************************************************)
(* Python values the orchestrator and the writer pass around.              *)
(***************************************************************************)
PyNone == [kind |-> "none", text |-> <<>>, wealth |-> NoWealth]
PyStr(s) == [kind |-> "str", text |-> s, wealth |-> NoWealth]
PyWealth(w) == [kind |-> "wealth", text |-> <<>>, wealth |-> w]
PyTuple(s, w) == [kind |-> "tuple", text |-> s, wealth |-> w]
\* a value that is neither a str nor a Wealth (a dict, a number)
PyOther == [kind |-> "other", text |-> <<>>, wealth |-> NoWealth]

\* a truth test that only None fails
TruthyUnlessNone(v) == v.kind # "none"

\* bool(v): None and "" are falsy; a model instance and a 2-tuple are truthy
Truthy(v) ==
    CASE v.kind = "none" -> FALSE
      [] v.kind = "str" -> v.text # <<>>
      [] OTHER -> TRUE

\* bool() of an environment value: unset (None) and "" are falsy
EnvValues == {"None", "", "set"}
EnvTruthy(x) == x = "set"


(***************************************************************************)
(* State.                                                                  *)
(***************************************************************************)
VARIABLES
    pc,                 \* position of run_portfolio_scraper
    data_type,          \* --data-type
    store_in_influxdb,  \* not --no-influxdb
    fatal,              \* the fatal configuration error met: "none", "url",
                        \* "credential", "probe"
    portfolio_url,      \* its local `portfolio_url`
    llms,               \* its locals `main_llm, planner_llm`
    influxConfig,       \* the store settings init_client read: "unread",
                        \* "complete", "incomplete"
    exc,                \* the exception in flight: "none", "Exception", "SystemExit"
    exitStatus,         \* exit status of the process, -1 while it runs
    probe,              \* the answer of the debug endpoint, "none" before the
                        \* probe and once create_browser has returned a Browser
    probeResult,        \* what check_debug_chrome_connection made of it
    browser,            \* run_portfolio_scraper's local `browser`
    trace,              \* the external actions of the run, in order
    report,             \* the messages logged and printed so far
    rawRes,             \* what fetch_raw_portfolio_data returned
    structRes,          \* what fetch_structured_portfolio_data returned
    result,             \* its local `result`, the final result of the agent
                        \* run, until fetch_portfolio_data has returned
    portfolio_data,     \* run_portfolio_scraper's local `portfolio_data`
    raw_data,           \* its local `raw_data`
    structured_data,    \* its local `structured_data`
    printed,            \* the result was printed completely
    client,             \* its local `client`
    write_api,          \* its local `write_api`
    bucket,             \* its local `bucket`
    raw_success,        \* its local `raw_success`
    wpc,                \* position of the write function being executed
    wdata,              \* its argument `data`
    wtags,              \* its argument `tags`
    wapi,               \* its argument `write_api`
    wbucket,            \* its argument `bucket`
    widx,               \* index of the loop over holdings / platforms
    wret,               \* its return value
    wlog,               \* write_api calls of this call, with their outcome
    wrecs,              \* the records this call submitted
    submitted,          \* every record write_api.write accepted
    now                 \* the wall clock

runVars ==
    <<pc, data_type, store_in_influxdb, fatal, portfolio_url, llms,
      influxConfig, exc, exitStatus, probe, probeResult, browser, report,
      rawRes, structRes, result, portfolio_data, raw_data, structured_data, printed,
      client, write_api, bucket, raw_success>>

writerVars == <<wpc, wdata, wtags, wapi, wbucket, widx, wret, wlog, wrecs>>

vars == <<runVars, writerVars, trace, submitted, now>>

DataTypes == {"raw", "structured", "both"}

\* run_portfolio_scraper has not started
RunAtStart ==
    /\ fatal = "none"
    /\ portfolio_url = "None"
    /\ llms = "None"
    /\ influxConfig = "unread"
    /\ exc = "none"
    /\ exitStatus = -1
    /\ probe = "none"
    /\ probeResult = "none"
    /\ browser = "None"
    /\ trace = <<>>
    /\ report = {}
    /\ rawRes = PyNone
    /\ structRes = PyNone
    /\ result = NoFinal
    /\ portfolio_data = PyNone
    /\ raw_data = PyNone
    /\ structured_data = PyNone
    /\ printed = FALSE
    /\ client = "None"
    /\ write_api = "None"
    /\ bucket = "None"
    /\ raw_success = FALSE
    /\ submitted = <<>>
    /\ now = 0

\* the process as main() enters run_portfolio_scraper (main.py 189-192)
Init ==
    /\ pc = "get_portfolio_url"
    /\ data_type \in DataTypes
    /\ store_in_influxdb \in BOOLEAN
    /\ RunAtStart
    /\ wpc = "idle"
    /\ wdata = PyNone
    /\ wtags = "None"
    /\ wapi = "None"
    /\ wbucket = "None"
    /\ widx = 0
    /\ wret = FALSE
    /\ wlog = <<>>
    /\ wrecs = <<>>

(***************************************************************************)
(* Exceptions.  `except Exception` catches every ordinary exception and    *)
(* lets SystemExit (a BaseException) pass; a finally block runs either way.*)
(***************************************************************************)
\* a try statement without an except clause
CaughtByNoClause(e) == FALSE

CaughtByExceptException(e) == e = "Exception"

\* where control goes when e is raised inside the outer try (main.py 24-155)
OuterTarget(e) ==
    IF CaughtByExceptException(e) THEN "outer_except" ELSE "outer_finally"

Raise(e) ==
    /\ exc' = e
    /\ pc' = OuterTarget(e)

(***************************************************************************)
(* Configuration (settings.py).                                            *)
(***************************************************************************)
\* get_portfolio_url: ValueError when PORTFOLIO_URL is unset or empty
GetPortfolioUrl ==
    /\ pc = "get_portfolio_url"
    /\ \E v \in EnvValues :
        IF EnvTruthy(v)
        THEN /\ portfolio_url' = "url"
             /\ pc' = "get_llm_models"
             /\ UNCHANGED <<fatal, exc>>
        ELSE /\ fatal' = "url"
             /\ Raise("Exception")
             /\ UNCHANGED portfolio_url
    /\ UNCHANGED <<data_type, store_in_influxdb, llms, influxConfig,
                   exitStatus, probe, probeResult, browser, trace, report,
                   rawRes, structRes, result, portfolio_data, raw_data,
                   structured_data, printed, client, write_api, bucket,
                   raw_success, wpc, wdata, wtags, wapi, wbucket, widx, wret,
                   wlog, wrecs, submitted, now>>

Providers == {"openai", "anthropic", "ollama", "google"}

\* does building the two model handles raise?  The google branch raises
\* ValueError itself when GEMINI_API_KEY is falsy; the hosted providers'
\* constructors may refuse a missing key (libraryRefuses); ollama needs none.
LlmModelsRaise(provider, cred, libraryRefuses) ==
    CASE provider = "google" -> ~EnvTruthy(cred)
      [] provider = "ollama" -> FALSE
      [] OTHER -> ~EnvTruthy(cred) /\ libraryRefuses

\* get_browser_headless (its value does not steer the run) and get_llm_models
GetLlmModels ==
    /\ pc = "get_llm_models"
    /\ \E p \in Providers, c \in EnvValues, refuses \in BOOLEAN :
        IF LlmModelsRaise(p, c, refuses)
        THEN /\ fatal' = "credential"
             /\ Raise("Exception")
             /\ UNCHANGED llms
        ELSE /\ llms' = "models"
             /\ pc' = "create_browser"
             /\ UNCHANGED <<fatal, exc>>
    /\ UNCHANGED <<data_type, store_in_influxdb, portfolio_url, influxConfig,
                   exitStatus, probe, probeResult, browser, trace, report,
                   rawRes, structRes, result, portfolio_data, raw_data,
                   structured_data, printed, client, write_api, bucket,
                   raw_success, wpc, wdata, wtags, wapi, wbucket, widx, wret,
                   wlog, wrecs, submitted, now>>

(***************************************************************************)
(* Browser session provider (browser_service.py).                          *)
(***************************************************************************)
ProbeResponses ==
    {"200_browser_field", "200_no_browser_field", "200_not_json",
     "500", "ConnectionError", "OtherError"}

\* check_debug_chrome_connection: "True", "False", or "raise" when an
\* exception leaves the function (only ConnectionError is caught; a body
\* that is not JSON makes response.json() raise)
CheckDebugChromeConnection(resp) ==
    CASE resp = "500" -> "False"
      [] resp = "ConnectionError" -> "False"
      [] resp = "OtherError" -> "raise"
      [] resp = "200_not_json" -> "raise"
      [] resp = "200_no_browser_field" -> "True"
      [] resp = "200_browser_field" -> "True"

\* create_browser calls check_debug_chrome_connection (browser_service.py 54)
ProbeDebugChrome ==
    /\ pc = "create_browser"
    /\ \E resp \in ProbeResponses :
        /\ probe' = resp
        /\ probeResult' = CheckDebugChromeConnection(resp)
    /\ trace' = Append(trace, "probe")
    /\ pc' = "probe_done"
    /\ UNCHANGED <<data_type, store_in_influxdb, fatal, portfolio_url, llms,
                   influxConfig, exc, exitStatus, browser, report, rawRes,
                   structRes, result, portfolio_data, raw_data, structured_data,
                   printed, client, write_api, bucket, raw_success, wpc,
                   wdata, wtags, wapi, wbucket, widx, wret, wlog, wrecs,
                   submitted, now>>

\* create_browser that builds the Browser whatever the probe said
CreateBrowserIgnoringProbe ==
    /\ pc = "probe_done"
    /\ browser' = "Browser"
    /\ trace' = Append(trace, "Browser()")
    /\ pc' = "start_fetch"
    /\ UNCHANGED <<data_type, store_in_influxdb, fatal, portfolio_url, llms,
                   influxConfig, exc, exitStatus, probe, probeResult, report,
                   rawRes, structRes, result, portfolio_data, raw_data, structured_data,
                   printed, client, write_api, bucket, raw_success, writerVars,
                   submitted, now>>

\* the rest of create_browser, called at main.py 31: sys.exit(1) when the
\* probe said False, else Browser(config); main.py 32-34 never returns
\* early since a Browser object is truthy
CreateBrowser ==
    /\ pc = "probe_done"
    /\ CASE probeResult = "True" ->
              /\ browser' = "Browser"
              /\ trace' = Append(trace, "Browser()")
              /\ probe' = "none"
              /\ pc' = "start_fetch"
              /\ UNCHANGED <<fatal, exc>>
         [] probeResult = "False" ->
              /\ fatal' = "probe"
              /\ Raise("SystemExit")
              /\ UNCHANGED <<browser, trace, probe>>
         [] OTHER ->
              /\ fatal' = "probe"
              /\ Raise("Exception")
              /\ UNCHANGED <<browser, trace, probe>>
    /\ UNCHANGED <<data_type, store_in_influxdb, portfolio_url, llms,
                   influxConfig, exitStatus, probeResult, report, rawRes,
                   structRes, result, portfolio_data, raw_data, structured_data,
                   printed, client, write_api, bucket, raw_success, wpc,
                   wdata, wtags, wapi, wbucket, widx, wret, wlog, wrecs,
                   submitted, now>>

(***************************************************************************)
(* Extraction agent (portfolio_agent.py).  An agent run either raises or   *)
(* ends with a final result.                                               *)
(***************************************************************************)
RawAgentOutcomes ==
    {[raised |-> TRUE, final |-> PyNone]} \cup
    {[raised |-> FALSE, final |-> v] : v \in {PyNone} \cup {PyStr(t) : t \in Texts}}

\* fetch_raw_portfolio_data: the final result as it is, None on an exception
FetchRawPortfolioData(o) == IF o.raised THEN PyNone ELSE o.final

\* the Wealth values the agent reads off the charts: a chart lists an asset
\* or a platform once
AgentWealths ==
    {w \in Wealths :
        /\ \A i \in 1..Len(w.top_5_holdings), j \in 1..Len(w.top_5_holdings) :
              i # j => w.top_5_holdings[i].asset # w.top_5_holdings[j].asset
        /\ \A i \in 1..Len(w.top_5_platforms), j \in 1..Len(w.top_5_platforms) :
              i # j => w.top_5_platforms[i].platform # w.top_5_platforms[j].platform}

\* final results of the structured run: None, the empty text, a text that
\* is no JSON, the JSON text of a Wealth, a JSON text off the schema
StructuredFinals ==
    {Final(k, DocOf(NoWealth)) : k \in {"none", "empty", "not json"}} \cup
    {Final("json", DocOf(w)) : w \in AgentWealths} \cup
    {Final("json", d) : d \in OffSchemaDocs}

StructuredAgentOutcomes ==
    {[raised |-> TRUE, final |-> NoFinal]} \cup
    {[raised |-> FALSE, final |-> f] : f \in StructuredFinals}

\* the same with lists of up to MaxListLen items of one asset and of one
\* platform
LongWealths ==
    {Wealth([i \in 1..h |-> [asset |-> "USDC", value |-> 120, percentage |-> 40]],
            [net_worth |-> 301, sol_equivalent |-> 2],
            [i \in 1..q |-> [platform |-> "Kamino", value |-> 200, percentage |-> 66]]) :
       h \in 0..MaxListLen, q \in 0..MaxListLen}

LongStructuredAgentOutcomes ==
    {[raised |-> TRUE, final |-> NoFinal]} \cup
    {[raised |-> FALSE, final |-> Final(k, DocOf(NoWealth))] :
        k \in {"none", "empty", "not json"}} \cup
    {[raised |-> FALSE, final |-> Final("json", DocOf(w))] : w \in LongWealths} \cup
    {[raised |-> FALSE, final |-> Final("json", d)] : d \in OffSchemaDocs}

\* fetch_structured_portfolio_data returning whatever the document holds,
\* validated or not
FetchStructuredPortfolioDataUnvalidated(o) ==
    IF o.raised THEN PyNone
    ELSE IF o.final.kind \in {"none", "empty"} THEN PyNone
    ELSE IF o.final.kind = "not json" THEN PyNone
    ELSE PyWealth(WealthFrom(o.final.doc))

\* fetch_structured_portfolio_data: None when the run raised, when the final
\* result is falsy and when Wealth.model_validate_json raised
FetchStructuredPortfolioData(o) ==
    IF o.raised THEN PyNone
    ELSE IF o.final.kind \in {"none", "empty"} THEN PyNone
    ELSE IF o.final.kind = "not json" \/ ~WealthValid(o.final.doc) THEN PyNone
    ELSE PyWealth(WealthFrom(o.final.doc))

\* fetch_portfolio_data returning one payload at most in mode both
FetchPortfolioDataResultOnePayload(dt, raw, st) ==
    CASE dt = "raw" -> raw
      [] dt = "structured" -> st
      [] OTHER ->
            IF Truthy(raw) THEN raw
            ELSE IF Truthy(st) THEN st
            ELSE PyNone

\* what fetch_portfolio_data returns from the results of the runs it made
FetchPortfolioDataResult(dt, raw, st) ==
    CASE dt = "raw" -> raw
      [] dt = "structured" -> st
      [] OTHER ->
            IF Truthy(raw) /\ Truthy(st) THEN PyTuple(raw.text, st.wealth)
            ELSE IF Truthy(raw) THEN raw
            ELSE IF Truthy(st) THEN st
            ELSE PyNone

\* PortfolioAgent(...) and the entry of fetch_portfolio_data (main.py 37-46)
StartFetch ==
    /\ pc = "start_fetch"
    /\ pc' = IF data_type = "structured" THEN "fetch_structured" ELSE "fetch_raw"
    /\ trace' = Append(trace, "fetch_portfolio_data")
    /\ UNCHANGED <<data_type, store_in_influxdb, fatal, portfolio_url, llms,
                   influxConfig, exc, exitStatus, probe, probeResult, browser,
                   report, rawRes, structRes, result, portfolio_data, raw_data,
                   structured_data, printed, client, write_api, bucket,
                   raw_success, wpc, wdata, wtags, wapi, wbucket, widx, wret,
                   wlog, wrecs, submitted, now>>

\* fetch_portfolio_data going on to the structured extraction only when the
\* raw one produced something
AfterRawFetchStopsOnFailure(dt, raw) ==
    IF dt = "both" /\ Truthy(raw) THEN "fetch_structured" ELSE "fetch_return"

\* portfolio_agent.py 153 and 157-158: where fetch_portfolio_data goes once
\* fetch_raw_portfolio_data has returned `raw`
AfterRawFetch(dt, raw) ==
    IF dt = "both" THEN "fetch_structured" ELSE "fetch_return"

\* fetch_raw_portfolio_data 48-91: the Agent is built on the session and
\* its step loop starts
RunRawAgent ==
    /\ pc = "fetch_raw"
    /\ trace' = Append(trace, "agent.run raw")
    /\ pc' = "raw_running"
    /\ UNCHANGED <<data_type, store_in_influxdb, fatal, portfolio_url, llms,
                   influxConfig, exc, exitStatus, probe, probeResult, browser,
                   report, rawRes, structRes, result, portfolio_data,
                   raw_data, structured_data, printed, client, write_api,
                   bucket, raw_success, wpc, wdata, wtags, wapi, wbucket,
                   widx, wret, wlog, wrecs, submitted, now>>

\* fetch_raw_portfolio_data 91-97: the step loop has ended
FetchRaw ==
    /\ pc = "raw_running"
    /\ \E o \in RawAgentOutcomes :
        /\ rawRes' = FetchRawPortfolioData(o)
        /\ report' = report \cup
             {IF o.raised THEN "Error fetching raw portfolio data"
              ELSE "Raw portfolio data fetched successfully"}
    /\ trace' = Append(trace, "agent.run raw ended")
    /\ pc' = AfterRawFetch(data_type, rawRes')
    /\ UNCHANGED <<data_type, store_in_influxdb, fatal, portfolio_url, llms,
                   influxConfig, exc, exitStatus, probe, probeResult, browser,
                   structRes, result, portfolio_data, raw_data,
                   structured_data, printed, client, write_api, bucket,
                   raw_success, wpc, wdata, wtags, wapi, wbucket, widx, wret,
                   wlog, wrecs, submitted, now>>

\* fetch_structured_portfolio_data 106-128: the Agent is built on the
\* session and its step loop starts
RunStructuredAgent ==
    /\ pc = "fetch_structured"
    /\ trace' = Append(trace, "agent.run structured")
    /\ pc' = "structured_running"
    /\ UNCHANGED <<data_type, store_in_influxdb, fatal, portfolio_url, llms,
                   influxConfig, exc, exitStatus, probe, probeResult, browser,
                   report, rawRes, structRes, result, portfolio_data,
                   raw_data, structured_data, printed, client, write_api,
                   bucket, raw_success, wpc, wdata, wtags, wapi, wbucket,
                   widx, wret, wlog, wrecs, submitted, now>>

\* fetch_structured_portfolio_data 128-140, the step loop ending in one of
\* `outcomes`
FetchStructuredFrom(outcomes) ==
    /\ pc = "structured_running"
    /\ \E o \in outcomes :
        /\ result' = o.final
        /\ structRes' = FetchStructuredPortfolioData(o)
        /\ report' = report \cup
             {IF o.raised THEN "Error fetching structured portfolio data"
              ELSE IF o.final.kind \in {"none", "empty"}
                THEN "No structured portfolio data found"
              ELSE IF structRes'.kind = "none"
                THEN "Error fetching structured portfolio data"
              ELSE "Structured portfolio data fetched successfully"}
    /\ trace' = Append(trace, "agent.run structured ended")
    /\ pc' = "fetch_return"
    /\ UNCHANGED <<data_type, store_in_influxdb, fatal, portfolio_url, llms,
                   influxConfig, exc, exitStatus, probe, probeResult, browser,
                   rawRes, portfolio_data, raw_data, structured_data, printed,
                   client, write_api, bucket, raw_success, wpc, wdata, wtags,
                   wapi, wbucket, widx, wret, wlog, wrecs, submitted, now>>

FetchStructured == FetchStructuredFrom(StructuredAgentOutcomes)

FetchStructuredLong == FetchStructuredFrom(LongStructuredAgentOutcomes)

(***************************************************************************)
(* Run orchestrator (main.py, run_portfolio_scraper).                      *)
(***************************************************************************)
\* a run that calls fetch_portfolio_data again when nothing came back
AfterReceiveRetrying(pd) == IF Truthy(pd) THEN "print" ELSE "start_fetch"

\* main.py 48-50: `return` (to the finally block) when nothing truthy came
\* back
AfterReceive(pd) == IF Truthy(pd) THEN "print" ELSE "outer_finally"

\* main.py 46-53: nothing truthy came back: log and return
ReceivePortfolioData ==
    /\ pc = "fetch_return"
    /\ portfolio_data' = FetchPortfolioDataResult(data_type, rawRes, structRes)
    /\ result' = NoFinal
    /\ pc' = AfterReceive(portfolio_data')
    /\ report' = report \cup
         {IF Truthy(portfolio_data') THEN "Portfolio data fetched successfully"
          ELSE "No portfolio data found"}
    /\ UNCHANGED <<data_type, store_in_influxdb, fatal, portfolio_url, llms,
                   influxConfig, exc, exitStatus, probe, probeResult, browser,
                   trace, rawRes, structRes, raw_data, structured_data,
                   printed, client, write_api, bucket, raw_success, wpc,
                   wdata, wtags, wapi, wbucket, widx, wret, wlog, wrecs,
                   submitted, now>>

\* main.py 57-83: the local raw_data
RawDataOf(dt, pd) ==
    IF dt = "both" /\ pd.kind = "tuple" THEN PyStr(pd.text)
    ELSE IF dt = "raw" \/ pd.kind = "str" THEN pd
    ELSE PyNone

\* main.py 57-83: the local structured_data
StructuredDataOf(dt, pd) ==
    IF dt = "both" /\ pd.kind = "tuple" THEN PyWealth(pd.wealth)
    ELSE IF dt = "raw" \/ pd.kind = "str" THEN PyNone
    ELSE IF dt = "structured" \/ pd.kind = "wealth" THEN pd
    ELSE PyNone

\* main.py 54-88: print the result; writing to stdout may fail
PrintPortfolioData ==
    /\ pc = "print"
    /\ raw_data' = RawDataOf(data_type, portfolio_data)
    /\ structured_data' = StructuredDataOf(data_type, portfolio_data)
    /\ \E ok \in BOOLEAN :
        IF ok
        THEN /\ printed' = TRUE
             /\ trace' = Append(trace, "print")
             /\ pc' = IF store_in_influxdb THEN "init_client" ELSE "outer_finally"
             /\ UNCHANGED exc
        ELSE /\ Raise("Exception")
             /\ UNCHANGED <<printed, trace>>
    /\ UNCHANGED <<data_type, store_in_influxdb, fatal, portfolio_url, llms,
                   influxConfig, exitStatus, probe, probeResult, browser,
                   report, rawRes, structRes, result, portfolio_data, client,
                   write_api, bucket, raw_success, wpc, wdata, wtags, wapi,
                   wbucket, widx, wret, wlog, wrecs, submitted, now>>

(***************************************************************************)
(* Persistence writer (influx_service.py).                                 *)
(***************************************************************************)
\* the four store settings as the environment holds them: "incomplete" when
\* one of them is unset or empty
StoreSettings(u, t, o, b) ==
    IF \A x \in {u, t, o, b} : x \notin {"None", ""} THEN "complete" ELSE "incomplete"

\* init_client with the bucket left out of its check
InfluxConfigCompleteNoBucket(u, t, o, b) ==
    EnvTruthy(u) /\ EnvTruthy(t) /\ EnvTruthy(o)

\* `if not all([url, token, org, bucket])` of init_client
InfluxConfigComplete(u, t, o, b) ==
    EnvTruthy(u) /\ EnvTruthy(t) /\ EnvTruthy(o) /\ EnvTruthy(b)

\* init_client, called at main.py 93.  InfluxDBClient(...) or
\* client.write_api() may raise; both land in the except clause, which
\* returns (None, None, None)
InitClient ==
    /\ pc = "init_client"
    /\ \E u \in EnvValues, t \in EnvValues, o \in EnvValues, b \in EnvValues :
        IF InfluxConfigComplete(u, t, o, b)
        THEN /\ influxConfig' = StoreSettings(u, t, o, b)
             /\ \E made \in {"both", "client only", "nothing"} :
                 /\ client' = IF made = "both" THEN "client" ELSE "None"
                 /\ write_api' = IF made = "both" THEN "write_api" ELSE "None"
                 /\ bucket' = IF made = "both" THEN b ELSE "None"
                 /\ trace' = trace \o
                      (CASE made = "both" ->
                              <<"InfluxDBClient()", "client.write_api()">>
                         [] made = "client only" ->
                              <<"InfluxDBClient()", "client.write_api() raised">>
                         [] OTHER -> <<"InfluxDBClient() raised">>)
                 /\ report' = IF made = "both" THEN report
                              ELSE report \cup {"Error initializing InfluxDB client"}
        ELSE /\ influxConfig' = StoreSettings(u, t, o, b)
             /\ report' = report \cup
                  {"InfluxDB configuration environment variables not fully set"}
             /\ UNCHANGED <<client, write_api, bucket, trace>>
    /\ pc' = "start_writes"
    /\ UNCHANGED <<data_type, store_in_influxdb, fatal, portfolio_url, llms,
                   exc, exitStatus, probe, probeResult, browser, rawRes,
                   structRes, result, portfolio_data, raw_data, structured_data,
                   printed, raw_success, wpc, wdata, wtags, wapi, wbucket,
                   widx, wret, wlog, wrecs, submitted, now>>

\* the tags argument: None, {}, {"data_type": "raw"}, or a truthy value
\* without .items()
TagValues == {"None", "empty", "raw_tag", "bad"}

TagPairs(tags) == IF tags = "raw_tag" THEN {<<"data_type", "raw">>} ELSE {}

\* a call of write_portfolio_data(write_api, bucket, data, tags)
CallWrite(api, bkt, data, tags) ==
    /\ wpc' = "enter"
    /\ wapi' = api
    /\ wbucket' = bkt
    /\ wdata' = data
    /\ wtags' = tags
    /\ widx' = 0
    /\ wret' = FALSE
    /\ wlog' = <<>>
    /\ wrecs' = <<>>

\* the isinstance dispatch of write_portfolio_data
WriteDispatch(data) ==
    CASE data.kind = "wealth" -> "structured"
      [] data.kind = "str" -> "raw"
      [] OTHER -> "unsupported"

\* the call write_portfolio_data(data=data), by the type of `data`
WriteCallEvent(data) ==
    CASE data.kind = "wealth" -> "write_portfolio_data(Wealth)"
      [] data.kind = "str" -> "write_portfolio_data(str)"
      [] OTHER -> "write_portfolio_data(other)"

\* a guard that does not look at the bucket
WriteGuardWithoutBucket(api, bkt, data) == api # "None" /\ Truthy(data)

\* `all([write_api, bucket, data])` of the two write functions
WriteGuard(api, bkt, data) == api # "None" /\ EnvTruthy(bkt) /\ Truthy(data)

\* the position after the net-worth record, or after record idx of a list
AfterNetWorth(w) ==
    IF Len(w.top_5_holdings) > 0 THEN <<"s_hold", 1>>
    ELSE IF Len(w.top_5_platforms) > 0 THEN <<"s_plat", 1>>
    ELSE <<"s_flush", 0>>

\* the holdings loop stopping one item early
AfterHoldingOffByOne(w, idx) ==
    IF idx + 1 < Len(w.top_5_holdings) THEN <<"s_hold", idx + 1>>
    ELSE IF Len(w.top_5_platforms) > 0 THEN <<"s_plat", 1>>
    ELSE <<"s_flush", 0>>

AfterHolding(w, idx) ==
    IF idx < Len(w.top_5_holdings) THEN <<"s_hold", idx + 1>>
    ELSE IF Len(w.top_5_platforms) > 0 THEN <<"s_plat", 1>>
    ELSE <<"s_flush", 0>>

AfterPlatform(w, idx) ==
    IF idx < Len(w.top_5_platforms) THEN <<"s_plat", idx + 1>>
    ELSE <<"s_flush", 0>>

\* the try block of write_structured_portfolio_data (89-128) catches
\* Exception at every statement after the guard
StructuredCatches(site) == site \in {"s_net", "s_hold", "s_plat", "s_flush"}

\* write_raw_portfolio_data with flush() called after the try block
RawCatchesNotFlush(site) == site = "r_point"

\* the try block of write_raw_portfolio_data (147-170)
RawCatches(site) == site \in {"r_point", "r_flush"}

\* an exception raised at `site` of a write function
WriterRaise(site) ==
    IF StructuredCatches(site) \/ RawCatches(site)
    THEN /\ wpc' = "returned"
         /\ wret' = FALSE
    ELSE /\ wpc' = "raised"
         /\ wret' = wret

\* datetime.now(timezone.utc): the clock may have advanced since it was read
ClockReads(n) == IF n < MaxClock THEN {n, n + 1} ELSE {n}

NetWorthPoint(w, t) ==
    [measurement |-> "portfolio",
     tags |-> {},
     fields |-> {<<"net_worth", w.net_worth.net_worth>>,
                 <<"sol_equivalent", w.net_worth.sol_equivalent>>},
     time |-> t]

HoldingPoint(h, t) ==
    [measurement |-> "portfolio_holding",
     tags |-> {<<"asset", h.asset>>},
     fields |-> {<<"percentage", h.percentage>>, <<"value", h.value>>},
     time |-> t]

PlatformPoint(p, t) ==
    [measurement |-> "portfolio_platform",
     tags |-> {<<"platform", p.platform>>},
     fields |-> {<<"percentage", p.percentage>>, <<"value", p.value>>},
     time |-> t]

\* data[:65000]
TruncateRaw(s) == Slice(s, RawFieldLimit)

RawPoint(s, tags, t) ==
    [measurement |-> "portfolio_raw",
     tags |-> TagPairs(tags),
     fields |-> {<<"raw_data", TruncateRaw(s)>>},
     time |-> t]

\* a write loop that logs the failure of a record and goes on to the next
WriteRecordContinuing(site, point, ok, next) ==
    /\ wlog' = Append(wlog, IF ok THEN "write" ELSE "write failed")
    /\ trace' = Append(trace, IF ok THEN "write" ELSE "write failed")
    /\ submitted' = IF ok THEN Append(submitted, point) ELSE submitted
    /\ wrecs' = IF ok THEN Append(wrecs, point) ELSE wrecs
    /\ wpc' = next[1]
    /\ widx' = next[2]
    /\ wret' = wret

\* write_api.write(bucket=bucket, record=point) at `site`, then on to `next`
WriteRecord(site, point, ok, next) ==
    /\ wlog' = Append(wlog, IF ok THEN "write" ELSE "write failed")
    /\ trace' = Append(trace, IF ok THEN "write" ELSE "write failed")
    /\ IF ok
       THEN /\ submitted' = Append(submitted, point)
            /\ wrecs' = Append(wrecs, point)
            /\ wpc' = next[1]
            /\ widx' = next[2]
            /\ wret' = wret
       ELSE /\ submitted' = submitted
            /\ wrecs' = wrecs
            /\ widx' = widx
            /\ WriterRaise(site)

\* a write function that returns True without flushing
FlushSkipped(site, ok) ==
    /\ wpc' = "returned"
    /\ wret' = TRUE
    /\ UNCHANGED <<wlog, trace>>

\* write_api.flush() at `site`, then return True
Flush(site, ok) ==
    /\ wlog' = Append(wlog, IF ok THEN "flush" ELSE "flush failed")
    /\ trace' = Append(trace, IF ok THEN "flush" ELSE "flush failed")
    /\ IF ok
       THEN /\ wpc' = "returned"
            /\ wret' = TRUE
       ELSE WriterRaise(site)

\* write_portfolio_data 186-192 and the guard of the function it calls
WriteEnter ==
    /\ wpc = "enter"
    /\ trace' = Append(trace, WriteCallEvent(wdata))
    /\ IF WriteDispatch(wdata) = "unsupported" \/ ~WriteGuard(wapi, wbucket, wdata)
       THEN /\ wpc' = "returned"
            /\ wret' = FALSE
       ELSE /\ wpc' = IF WriteDispatch(wdata) = "structured" THEN "s_net" ELSE "r_point"
            /\ wret' = wret
    /\ UNCHANGED <<pc, data_type, store_in_influxdb, fatal, portfolio_url,
                   llms, influxConfig, exc, exitStatus, probe, probeResult,
                   browser, report, rawRes, structRes, result, portfolio_data,
                   raw_data, structured_data, printed, client, write_api,
                   bucket, raw_success, wdata, wtags, wapi, wbucket, widx,
                   wlog, wrecs, submitted, now>>

\* write_structured_portfolio_data 90-98
WriteNetWorth ==
    /\ wpc = "s_net"
    /\ \E t \in ClockReads(now), ok \in BOOLEAN :
        /\ now' = t
        /\ WriteRecord("s_net", NetWorthPoint(wdata.wealth, t), ok,
                       AfterNetWorth(wdata.wealth))
    /\ UNCHANGED <<pc, data_type, store_in_influxdb, fatal, portfolio_url,
                   llms, influxConfig, exc, exitStatus, probe, probeResult,
                   browser, report, rawRes, structRes, result, portfolio_data,
                   raw_data, structured_data, printed, client, write_api,
                   bucket, raw_success, wdata, wtags, wapi, wbucket>>

\* write_structured_portfolio_data 101-110, one iteration
WriteHolding ==
    /\ wpc = "s_hold"
    /\ \E t \in ClockReads(now), ok \in BOOLEAN :
        /\ now' = t
        /\ WriteRecord("s_hold", HoldingPoint(wdata.wealth.top_5_holdings[widx], t),
                       ok, AfterHolding(wdata.wealth, widx))
    /\ UNCHANGED <<pc, data_type, store_in_influxdb, fatal, portfolio_url,
                   llms, influxConfig, exc, exitStatus, probe, probeResult,
                   browser, report, rawRes, structRes, result, portfolio_data,
                   raw_data, structured_data, printed, client, write_api,
                   bucket, raw_success, wdata, wtags, wapi, wbucket>>

\* write_structured_portfolio_data 113-122, one iteration
WritePlatform ==
    /\ wpc = "s_plat"
    /\ \E t \in ClockReads(now), ok \in BOOLEAN :
        /\ now' = t
        /\ WriteRecord("s_plat", PlatformPoint(wdata.wealth.top_5_platforms[widx], t),
                       ok, AfterPlatform(wdata.wealth, widx))
    /\ UNCHANGED <<pc, data_type, store_in_influxdb, fatal, portfolio_url,
                   llms, influxConfig, exc, exitStatus, probe, probeResult,
                   browser, report, rawRes, structRes, result, portfolio_data,
                   raw_data, structured_data, printed, client, write_api,
                   bucket, raw_success, wdata, wtags, wapi, wbucket>>

\* write_structured_portfolio_data 124-125
FlushStructured ==
    /\ wpc = "s_flush"
    /\ \E ok \in BOOLEAN : Flush("s_flush", ok)
    /\ UNCHANGED <<pc, data_type, store_in_influxdb, fatal, portfolio_url,
                   llms, influxConfig, exc, exitStatus, probe, probeResult,
                   browser, report, rawRes, structRes, result, portfolio_data,
                   raw_data, structured_data, printed, client, write_api,
                   bucket, raw_success, wdata, wtags, wapi, wbucket, widx,
                   wrecs, submitted, now>>

\* write_raw_portfolio_data 148-165; tags.items() raises on a value that is
\* no dict
WriteRawRecord ==
    /\ wpc = "r_point"
    /\ IF wtags = "bad"
       THEN /\ WriterRaise("r_point")
            /\ UNCHANGED <<widx, wlog, wrecs, trace, submitted, now>>
       ELSE \E t \in ClockReads(now), ok \in BOOLEAN :
             /\ now' = t
             /\ WriteRecord("r_point", RawPoint(wdata.text, wtags, t), ok,
                            <<"r_flush", 0>>)
    /\ UNCHANGED <<pc, data_type, store_in_influxdb, fatal, portfolio_url,
                   llms, influxConfig, exc, exitStatus, probe, probeResult,
                   browser, report, rawRes, structRes, result, portfolio_data,
                   raw_data, structured_data, printed, client, write_api,
                   bucket, raw_success, wdata, wtags, wapi, wbucket>>

\* write_raw_portfolio_data 166-167
FlushRaw ==
    /\ wpc = "r_flush"
    /\ \E ok \in BOOLEAN : Flush("r_flush", ok)
    /\ UNCHANGED <<pc, data_type, store_in_influxdb, fatal, portfolio_url,
                   llms, influxConfig, exc, exitStatus, probe, probeResult,
                   browser, report, rawRes, structRes, result, portfolio_data,
                   raw_data, structured_data, printed, client, write_api,
                   bucket, raw_success, wdata, wtags, wapi, wbucket, widx,
                   wrecs, submitted, now>>

(***************************************************************************)
(* Run orchestrator, persistence stage (main.py 88-144).                   *)
(***************************************************************************)
\* where control goes when e is raised inside the inner try (main.py 92-144)
InnerTarget(e) ==
    IF CaughtByExceptException(e) THEN "inner_except" ELSE "inner_finally"

\* `all([client, write_api, bucket])`
ClientReady(c, api, bkt) == c # "None" /\ api # "None" /\ EnvTruthy(bkt)

\* main.py 94-108, 117-124, 129-130: the first write_portfolio_data call
StartWrites ==
    /\ pc = "start_writes"
    /\ IF ClientReady(client, write_api, bucket)
       THEN /\ IF Truthy(raw_data) /\ Truthy(structured_data)
               THEN /\ CallWrite(write_api, bucket, raw_data, "raw_tag")
                    /\ pc' = "wait_raw"
               ELSE /\ CallWrite(write_api, bucket, portfolio_data,
                                 IF portfolio_data.kind = "str"
                                 THEN "raw_tag" ELSE "None")
                    /\ pc' = "wait_single"
            /\ report' = report
       ELSE /\ report' = report \cup
                 {"InfluxDB client not initialized, skipping data storage"}
            /\ pc' = "inner_finally"
            /\ UNCHANGED writerVars
    /\ UNCHANGED <<data_type, store_in_influxdb, fatal, portfolio_url, llms,
                   influxConfig, exc, exitStatus, probe, probeResult, browser,
                   trace, rawRes, structRes, result, portfolio_data, raw_data,
                   structured_data, printed, client, write_api, bucket,
                   raw_success, submitted, now>>

\* main.py 98-108: raw_success is bound, the structured write is called
AfterRawWrite ==
    /\ pc = "wait_raw"
    /\ wpc \in {"returned", "raised"}
    /\ IF wpc = "raised"
       THEN /\ exc' = "Exception"
            /\ pc' = InnerTarget("Exception")
            /\ UNCHANGED <<raw_success, writerVars>>
       ELSE /\ raw_success' = wret
            /\ CallWrite(write_api, bucket, structured_data, "None")
            /\ pc' = "wait_structured"
            /\ exc' = exc
    /\ UNCHANGED <<data_type, store_in_influxdb, fatal, portfolio_url, llms,
                   influxConfig, exitStatus, probe, probeResult, browser,
                   trace, report, rawRes, structRes, result, portfolio_data, raw_data,
                   structured_data, printed, client, write_api, bucket,
                   submitted, now>>

\* a report that tells complete success from everything else only
BothWritesMessageAllOrNothing(rawOk, structuredOk) ==
    IF rawOk /\ structuredOk
      THEN "Both raw and structured portfolio data written to InfluxDB"
    ELSE "Failed to write portfolio data to InfluxDB"

\* main.py 109-116: the outcome of the two writes
BothWritesMessage(rawOk, structuredOk) ==
    IF rawOk /\ structuredOk
      THEN "Both raw and structured portfolio data written to InfluxDB"
    ELSE IF rawOk THEN "Only raw portfolio data written to InfluxDB"
    ELSE IF structuredOk THEN "Only structured portfolio data written to InfluxDB"
    ELSE "Failed to write portfolio data to InfluxDB"

\* main.py 104-116
AfterStructuredWrite ==
    /\ pc = "wait_structured"
    /\ wpc \in {"returned", "raised"}
    /\ IF wpc = "raised"
       THEN /\ exc' = "Exception"
            /\ pc' = InnerTarget("Exception")
            /\ report' = report
       ELSE /\ report' = report \cup {BothWritesMessage(raw_success, wret)}
            /\ pc' = "inner_finally"
            /\ exc' = exc
    /\ UNCHANGED <<data_type, store_in_influxdb, fatal, portfolio_url, llms,
                   influxConfig, exitStatus, probe, probeResult, browser,
                   trace, rawRes, structRes, result, portfolio_data, raw_data,
                   structured_data, printed, client, write_api, bucket,
                   raw_success, wpc, wdata, wtags, wapi, wbucket, widx, wret,
                   wlog, wrecs, submitted, now>>

\* main.py 119-128
AfterSingleWrite ==
    /\ pc = "wait_single"
    /\ wpc \in {"returned", "raised"}
    /\ IF wpc = "raised"
       THEN /\ exc' = "Exception"
            /\ pc' = InnerTarget("Exception")
            /\ report' = report
       ELSE /\ report' = report \cup
                 {IF wret THEN "Portfolio data written to InfluxDB"
                  ELSE "Failed to write portfolio data to InfluxDB"}
            /\ pc' = "inner_finally"
            /\ exc' = exc
    /\ UNCHANGED <<data_type, store_in_influxdb, fatal, portfolio_url, llms,
                   influxConfig, exitStatus, probe, probeResult, browser,
                   trace, rawRes, structRes, result, portfolio_data, raw_data,
                   structured_data, printed, client, write_api, bucket,
                   raw_success, wpc, wdata, wtags, wapi, wbucket, widx, wret,
                   wlog, wrecs, submitted, now>>

\* main.py 131-132.  Nothing inside the inner try raises (init_client and
\* the write functions catch what they raise), so no run reaches this clause
\* and it is no disjunct of Next.
InnerExcept ==
    /\ pc = "inner_except"
    /\ report' = report \cup {"Error writing to InfluxDB"}
    /\ exc' = "none"
    /\ pc' = "inner_finally"
    /\ UNCHANGED <<data_type, store_in_influxdb, fatal, portfolio_url, llms,
                   influxConfig, exitStatus, probe, probeResult, browser,
                   trace, rawRes, structRes, result, portfolio_data, raw_data,
                   structured_data, printed, client, write_api, bucket,
                   raw_success, wpc, wdata, wtags, wapi, wbucket, widx, wret,
                   wlog, wrecs, submitted, now>>

\* main.py 133-144: close the write handle and the client the locals hold;
\* an exception of either close() is swallowed, so the run goes on the same
\* way whether it raised or not
InnerFinally ==
    /\ pc = "inner_finally"
    /\ trace' = trace \o
         (IF write_api # "None" THEN <<"write_api.close">> ELSE <<>>) \o
         (IF client # "None" THEN <<"client.close">> ELSE <<>>)
    /\ pc' = IF exc = "none" THEN "outer_finally" ELSE OuterTarget(exc)
    /\ UNCHANGED <<data_type, store_in_influxdb, fatal, portfolio_url, llms,
                   influxConfig, exc, exitStatus, probe, probeResult, browser,
                   report, rawRes, structRes, result, portfolio_data, raw_data,
                   structured_data, printed, client, write_api, bucket,
                   raw_success, wpc, wdata, wtags, wapi, wbucket, widx, wret,
                   wlog, wrecs, submitted, now>>

(***************************************************************************)
(* Run orchestrator, the end of the run (main.py 146-155, 195-197).        *)
(***************************************************************************)
\* an except clause that ends the run, browser.close() not being in a
\* finally block
OuterExceptWithoutFinally ==
    /\ pc = "outer_except"
    /\ report' = report \cup {"Error in portfolio scraper"}
    /\ exc' = "none"
    /\ pc' = "exit"
    /\ UNCHANGED <<data_type, store_in_influxdb, fatal, portfolio_url, llms,
                   influxConfig, exitStatus, probe, probeResult, browser,
                   rawRes, structRes, result, portfolio_data, raw_data, structured_data,
                   printed, client, write_api, bucket, raw_success, writerVars,
                   trace, submitted, now>>

\* main.py 146-147
OuterExcept ==
    /\ pc = "outer_except"
    /\ report' = report \cup {"Error in portfolio scraper"}
    /\ exc' = "none"
    /\ pc' = "outer_finally"
    /\ UNCHANGED <<data_type, store_in_influxdb, fatal, portfolio_url, llms,
                   influxConfig, exitStatus, probe, probeResult, browser,
                   trace, rawRes, structRes, result, portfolio_data, raw_data,
                   structured_data, printed, client, write_api, bucket,
                   raw_success, wpc, wdata, wtags, wapi, wbucket, widx, wret,
                   wlog, wrecs, submitted, now>>

\* `if browser:` of the finally block
BrowserHeld(b) == b # "None"

\* a finally block that closes the store client after the browser
CloseBrowserThenClient ==
    /\ pc = "outer_finally"
    /\ IF BrowserHeld(browser)
       THEN \E ok \in BOOLEAN :
             /\ trace' = trace \o <<"browser.close">> \o
                  (IF client # "None" THEN <<"client.close">> ELSE <<>>)
             /\ report' = report \cup
                  {IF ok THEN "Browser connection closed"
                   ELSE "Error closing browser connection"}
       ELSE UNCHANGED <<trace, report>>
    /\ pc' = "exit"
    /\ UNCHANGED <<data_type, store_in_influxdb, fatal, portfolio_url, llms,
                   influxConfig, exc, exitStatus, probe, probeResult, browser,
                   rawRes, structRes, result, portfolio_data, raw_data,
                   structured_data, printed, client, write_api, bucket,
                   raw_success, wpc, wdata, wtags, wapi, wbucket, widx, wret,
                   wlog, wrecs, submitted, now>>

\* main.py 148-155: the finally block; an exception of close() is logged
CloseBrowser ==
    /\ pc = "outer_finally"
    /\ IF BrowserHeld(browser)
       THEN \E ok \in BOOLEAN :
             /\ trace' = Append(trace, "browser.close")
             /\ report' = report \cup
                  {IF ok THEN "Browser connection closed"
                   ELSE "Error closing browser connection"}
       ELSE UNCHANGED <<trace, report>>
    /\ pc' = "exit"
    /\ UNCHANGED <<data_type, store_in_influxdb, fatal, portfolio_url, llms,
                   influxConfig, exc, exitStatus, probe, probeResult, browser,
                   rawRes, structRes, result, portfolio_data, raw_data,
                   structured_data, printed, client, write_api, bucket,
                   raw_success, wpc, wdata, wtags, wapi, wbucket, widx, wret,
                   wlog, wrecs, submitted, now>>

\* exit status of asyncio.run(main()): 0 when run_portfolio_scraper
\* returned, 1 for sys.exit(1) and for any exception that left it
ExitStatusOf(e) == IF e = "none" THEN 0 ELSE 1

\* main.py 195-197
ProcessExit ==
    /\ pc = "exit"
    /\ exitStatus' = ExitStatusOf(exc)
    /\ pc' = "done"
    /\ UNCHANGED <<data_type, store_in_influxdb, fatal, portfolio_url, llms,
                   influxConfig, exc, probe, probeResult, browser, trace,
                   report, rawRes, structRes, result, portfolio_data, raw_data,
                   structured_data, printed, client, write_api, bucket,
                   raw_success, wpc, wdata, wtags, wapi, wbucket, widx, wret,
                   wlog, wrecs, submitted, now>>

Next ==
    \/ GetPortfolioUrl
    \/ GetLlmModels
    \/ ProbeDebugChrome
    \/ CreateBrowser
    \/ StartFetch
    \/ RunRawAgent
    \/ FetchRaw
    \/ RunStructuredAgent
    \/ FetchStructured
    \/ ReceivePortfolioData
    \/ PrintPortfolioData
    \/ InitClient
    \/ StartWrites
    \/ WriteEnter
    \/ WriteNetWorth
    \/ WriteHolding
    \/ WritePlatform
    \/ FlushStructured
    \/ WriteRawRecord
    \/ FlushRaw
    \/ AfterRawWrite
    \/ AfterStructuredWrite
    \/ AfterSingleWrite
    \/ InnerFinally
    \/ OuterExcept
    \/ CloseBrowser
    \/ ProcessExit

Spec == Init /\ [][Next]_vars

(***************************************************************************)
(* A direct call of InfluxService.write_portfolio_data.                    *)
(***************************************************************************)
WriterPayloads ==
    {PyNone, PyOther} \cup {PyStr(t) : t \in Texts} \cup {PyWealth(w) : w \in Wealths}

InitWriter ==
    /\ pc = "direct_call"
    /\ data_type = "both"
    /\ store_in_influxdb = TRUE
    /\ RunAtStart
    /\ wpc = "enter"
    /\ wdata \in WriterPayloads
    /\ wtags \in TagValues
    /\ wapi \in {"None", "write_api"}
    /\ wbucket \in EnvValues
    /\ widx = 0
    /\ wret = FALSE
    /\ wlog = <<>>
    /\ wrecs = <<>>

WriterNext ==
    \/ WriteEnter
    \/ WriteNetWorth
    \/ WriteHolding
    \/ WritePlatform
    \/ FlushStructured
    \/ WriteRawRecord
    \/ FlushRaw

SpecWriter == InitWriter /\ [][WriterNext]_vars


(***************************************************************************)
(* A run in mode structured with persistence, from the call of             *)
(* fetch_structured_portfolio_data on (a state Spec reaches), the agent    *)
(* returning lists of up to MaxListLen items.                              *)
(***************************************************************************)
InitStructured ==
    /\ pc = "fetch_structured"
    /\ data_type = "structured"
    /\ store_in_influxdb = TRUE
    /\ fatal = "none"
    /\ portfolio_url = "url"
    /\ llms = "models"
    /\ influxConfig = "unread"
    /\ exc = "none"
    /\ exitStatus = -1
    /\ probe = "none"
    /\ probeResult = "True"
    /\ browser = "Browser"
    /\ trace = <<"probe", "Browser()", "fetch_portfolio_data">>
    /\ report = {}
    /\ rawRes = PyNone
    /\ structRes = PyNone
    /\ result = NoFinal
    /\ portfolio_data = PyNone
    /\ raw_data = PyNone
    /\ structured_data = PyNone
    /\ printed = FALSE
    /\ client = "None"
    /\ write_api = "None"
    /\ bucket = "None"
    /\ raw_success = FALSE
    /\ submitted = <<>>
    /\ now = 0
    /\ wpc = "idle"
    /\ wdata = PyNone
    /\ wtags = "None"
    /\ wapi = "None"
    /\ wbucket = "None"
    /\ widx = 0
    /\ wret = FALSE
    /\ wlog = <<>>
    /\ wrecs = <<>>

StructuredNext ==
    \/ RunStructuredAgent
    \/ FetchStructuredLong
    \/ ReceivePortfolioData
    \/ PrintPortfolioData
    \/ InitClient
    \/ StartWrites
    \/ WriteEnter
    \/ WriteNetWorth
    \/ WriteHolding
    \/ WritePlatform
    \/ FlushStructured
    \/ AfterSingleWrite
    \/ InnerFinally
    \/ OuterExcept
    \/ CloseBrowser
    \/ ProcessExit

SpecStructured == InitStructured /\ [][StructuredNext]_vars

(***************************************************************************)
(* The legacy structured entry script (src/main.py): the module body,      *)
(* fetch_portfolio, write_portfolio_data and main().                       *)
(***************************************************************************)
InitLegacy ==
    /\ pc = "legacy_load"
    /\ data_type = "structured"
    /\ store_in_influxdb = TRUE
    /\ RunAtStart
    /\ wpc = "idle"
    /\ wdata = PyNone
    /\ wtags = "None"
    /\ wapi = "None"
    /\ wbucket = "None"
    /\ widx = 0
    /\ wret = FALSE
    /\ wlog = <<>>
    /\ wrecs = <<>>

\* src/main.py 78-96: ValueError when PORTFOLIO_URL is unset or empty, else
\* the module builds its Browser
LegacyLoadModule ==
    /\ pc = "legacy_load"
    /\ \E url \in EnvValues :
        IF EnvTruthy(url)
        THEN /\ portfolio_url' = "url"
             /\ browser' = "Browser"
             /\ trace' = Append(trace, "Browser()")
             /\ pc' = "legacy_fetch"
             /\ UNCHANGED <<exc, fatal>>
        ELSE /\ exc' = "Exception"
             /\ fatal' = "url"
             /\ pc' = "exit"
             /\ UNCHANGED <<portfolio_url, browser, trace>>
    /\ UNCHANGED <<data_type, store_in_influxdb, llms, influxConfig,
                   exitStatus, probe, probeResult, report, rawRes, structRes,
                   result, portfolio_data, raw_data, structured_data, printed,
                   client, write_api, bucket, raw_success, wpc, wdata, wtags,
                   wapi, wbucket, widx, wret, wlog, wrecs, submitted, now>>

\* src/main.py 151-174, called at 178: agent.run() and model_validate_json
\* are in no try block, so what they raise leaves main()
LegacyFetchPortfolio ==
    /\ pc = "legacy_fetch"
    /\ trace' = trace \o <<"agent.run structured", "agent.run structured ended">>
    /\ \E o \in StructuredAgentOutcomes :
        IF o.raised
        THEN /\ exc' = "Exception"
             /\ pc' = "exit"
             /\ UNCHANGED structRes
        ELSE IF o.final.kind \in {"none", "empty"}
        THEN /\ structRes' = PyNone
             /\ pc' = "legacy_main"
             /\ UNCHANGED exc
        ELSE IF o.final.kind = "not json" \/ ~WealthValid(o.final.doc)
        THEN /\ exc' = "Exception"
             /\ pc' = "exit"
             /\ UNCHANGED structRes
        ELSE /\ structRes' = PyWealth(WealthFrom(o.final.doc))
             /\ pc' = "legacy_main"
             /\ UNCHANGED exc
    /\ UNCHANGED <<data_type, store_in_influxdb, fatal, portfolio_url, llms,
                   influxConfig, exitStatus, probe, probeResult, browser,
                   report, rawRes, result, portfolio_data, raw_data,
                   structured_data, printed, client, write_api, bucket,
                   raw_success, wpc, wdata, wtags, wapi, wbucket, widx, wret,
                   wlog, wrecs, submitted, now>>

\* src/main.py 179-183: `if parsed`
LegacyReceive ==
    /\ pc = "legacy_main"
    /\ IF Truthy(structRes)
       THEN /\ pc' = "legacy_init_influx"
            /\ UNCHANGED report
       ELSE /\ pc' = "legacy_close"
            /\ report' = report \cup {"No result found"}
    /\ UNCHANGED <<data_type, store_in_influxdb, fatal, portfolio_url, llms,
                   influxConfig, exc, exitStatus, probe, probeResult, browser,
                   trace, rawRes, structRes, result, portfolio_data, raw_data,
                   structured_data, printed, client, write_api, bucket,
                   raw_success, wpc, wdata, wtags, wapi, wbucket, widx, wret,
                   wlog, wrecs, submitted, now>>

\* src/main.py 98-107, called at 111 before the try block: ValueError when a
\* store setting is missing; InfluxDBClient(...) and client.write_api() may
\* raise; what is raised here leaves write_portfolio_data and main()
LegacyInitInfluxClient ==
    /\ pc = "legacy_init_influx"
    /\ \E u \in EnvValues, t \in EnvValues, o \in EnvValues, b \in EnvValues :
        /\ influxConfig' = StoreSettings(u, t, o, b)
        /\ IF InfluxConfigComplete(u, t, o, b)
           THEN \E made \in {"both", "client only", "nothing"} :
                 IF made = "both"
                 THEN /\ client' = "client"
                      /\ write_api' = "write_api"
                      /\ bucket' = b
                      /\ trace' = trace \o <<"InfluxDBClient()", "client.write_api()">>
                      /\ wpc' = "s_net"
                      /\ wdata' = structRes
                      /\ wapi' = "write_api"
                      /\ wbucket' = b
                      /\ pc' = "legacy_writing"
                      /\ UNCHANGED exc
                 ELSE /\ trace' = trace \o
                           (IF made = "client only"
                            THEN <<"InfluxDBClient()", "client.write_api() raised">>
                            ELSE <<"InfluxDBClient() raised">>)
                      /\ exc' = "Exception"
                      /\ pc' = "exit"
                      /\ UNCHANGED <<client, write_api, bucket, wpc, wdata, wapi, wbucket>>
           ELSE /\ exc' = "Exception"
                /\ pc' = "exit"
                /\ UNCHANGED <<client, write_api, bucket, trace, wpc, wdata, wapi, wbucket>>
    /\ UNCHANGED <<data_type, store_in_influxdb, fatal, portfolio_url, llms,
                   exitStatus, probe, probeResult, browser, report, rawRes,
                   structRes, result, portfolio_data, raw_data,
                   structured_data, printed, raw_success, wtags, widx, wret,
                   wlog, wrecs, submitted, now>>

\* src/main.py 113-121; the statements are those of
\* write_structured_portfolio_data, inside `try ... except Exception`
LegacyWriteNetWorth == pc = "legacy_writing" /\ WriteNetWorth

\* src/main.py 123-132, one iteration
LegacyWriteHolding == pc = "legacy_writing" /\ WriteHolding

\* src/main.py 134-143, one iteration
LegacyWritePlatform == pc = "legacy_writing" /\ WritePlatform

\* src/main.py 144
LegacyFlush == pc = "legacy_writing" /\ FlushStructured

\* src/main.py 145-149 and 181: the finally block closes the write handle
\* and the client; a close() that raises leaves main()
LegacyWriteFinally ==
    /\ pc = "legacy_writing"
    /\ wpc = "returned"
    /\ \E closed \in {"both", "write_api.close raised", "client.close raised"} :
        /\ trace' = trace \o
             (IF closed = "write_api.close raised" THEN <<"write_api.close">>
              ELSE <<"write_api.close", "client.close">>)
        /\ IF closed = "both"
           THEN /\ report' = report \cup {"Data written to InfluxDB"}
                /\ pc' = "legacy_close"
                /\ UNCHANGED exc
           ELSE /\ exc' = "Exception"
                /\ pc' = "exit"
                /\ UNCHANGED report
    /\ UNCHANGED <<data_type, store_in_influxdb, fatal, portfolio_url, llms,
                   influxConfig, exitStatus, probe, probeResult, browser,
                   rawRes, structRes, result, portfolio_data, raw_data,
                   structured_data, printed, client, write_api, bucket,
                   raw_success, wpc, wdata, wtags, wapi, wbucket, widx, wret,
                   wlog, wrecs, submitted, now>>

\* src/main.py 184: the last statement of main()
LegacyCloseBrowser ==
    /\ pc = "legacy_close"
    /\ trace' = Append(trace, "browser.close")
    /\ \E ok \in BOOLEAN : exc' = IF ok THEN exc ELSE "Exception"
    /\ pc' = "exit"
    /\ UNCHANGED <<data_type, store_in_influxdb, fatal, portfolio_url, llms,
                   influxConfig, exitStatus, probe, probeResult, browser,
                   report, rawRes, structRes, result, portfolio_data, raw_data,
                   structured_data, printed, client, write_api, bucket,
                   raw_success, wpc, wdata, wtags, wapi, wbucket, widx, wret,
                   wlog, wrecs, submitted, now>>

\* src/main.py 186-187
LegacyProcessExit == pc = "exit" /\ ProcessExit

LegacyNext ==
    \/ LegacyLoadModule
    \/ LegacyFetchPortfolio
    \/ LegacyReceive
    \/ LegacyInitInfluxClient
    \/ LegacyWriteNetWorth
    \/ LegacyWriteHolding
    \/ LegacyWritePlatform
    \/ LegacyFlush
    \/ LegacyWriteFinally
    \/ LegacyCloseBrowser
    \/ LegacyProcessExit

SpecLegacy == InitLegacy /\ [][LegacyNext]_vars

(***************************************************************************)
(* Properties.                                                             *)
(***************************************************************************)
Count(seq, e) == Cardinality({i \in 1..Len(seq) : seq[i] = e})

Has(seq, e) == \E i \in 1..Len(seq) : seq[i] = e

RunEnded == pc \in {"exit", "done"}

\* C1: in every run in which create_browser returned a browser,
\* browser.close() is attempted exactly once before the run ends, whatever
\* happened in between; it is never attempted twice.
BrowserClosedExactlyOnce ==
    /\ Count(trace, "browser.close") <= 1
    /\ (RunEnded /\ Has(trace, "Browser()")) => Count(trace, "browser.close") = 1

\* a run whose printing raised has ended with the browser closed once
BrowserClosedAfterError ==
    /\ pc = "done"
    /\ Has(trace, "Browser()")
    /\ "Error in portfolio scraper" \in report
    /\ Count(trace, "browser.close") = 1

\* C2: write_portfolio_data never raises; it returns a boolean, and True
\* only if every record write and the flush completed without error.
WriteNeverRaises ==
    /\ wpc # "raised"
    /\ wret \in BOOLEAN
    /\ (wpc = "returned" /\ wret) =>
          /\ ~Has(wlog, "write failed")
          /\ ~Has(wlog, "flush failed")
          /\ Has(wlog, "flush")

\* a raw write whose flush failed has returned False
RawFlushFailureReturnedFalse ==
    /\ wpc = "returned"
    /\ ~wret
    /\ wdata.kind = "str"
    /\ wlog = <<"write", "flush failed">>

\* the structured call has made every write_api.write call without a failure
StructuredWritesDone ==
    /\ wdata.kind = "wealth"
    /\ \/ wpc = "s_flush"
       \/ wpc = "returned" /\ (Has(wlog, "flush") \/ Has(wlog, "flush failed"))

\* C3: a structured write in which no write fails submits exactly
\* 1 + len(holdings) + len(platforms) records: the net-worth record, then one
\* record per holding in order, then one per platform in order, each with
\* the tag and field values of the Wealth.
StructuredDecomposition ==
    StructuredWritesDone =>
        LET w == wdata.wealth
            H == Len(w.top_5_holdings)
            P == Len(w.top_5_platforms)
        IN  /\ Len(wrecs) = 1 + H + P
            /\ wrecs[1].measurement = "portfolio"
            /\ wrecs[1].tags = {}
            /\ wrecs[1].fields =
                 {<<"net_worth", w.net_worth.net_worth>>,
                  <<"sol_equivalent", w.net_worth.sol_equivalent>>}
            /\ \A i \in 1..H :
                 /\ wrecs[1 + i].measurement = "portfolio_holding"
                 /\ wrecs[1 + i].tags = {<<"asset", w.top_5_holdings[i].asset>>}
                 /\ wrecs[1 + i].fields =
                      {<<"value", w.top_5_holdings[i].value>>,
                       <<"percentage", w.top_5_holdings[i].percentage>>}
            /\ \A j \in 1..P :
                 /\ wrecs[1 + H + j].measurement = "portfolio_platform"
                 /\ wrecs[1 + H + j].tags =
                      {<<"platform", w.top_5_platforms[j].platform>>}
                 /\ wrecs[1 + H + j].fields =
                      {<<"value", w.top_5_platforms[j].value>>,
                       <<"percentage", w.top_5_platforms[j].percentage>>}

\* a structured write of two different holdings and a platform returned True
StructuredWriteOfFourRecords ==
    /\ wpc = "returned"
    /\ wret
    /\ wdata.kind = "wealth"
    /\ Len(wdata.wealth.top_5_holdings) = 2
    /\ wdata.wealth.top_5_holdings[1] # wdata.wealth.top_5_holdings[2]
    /\ Len(wdata.wealth.top_5_platforms) = 1
    /\ Len(wrecs) = 4

\* C4: all records submitted by one write_structured_portfolio_data call
\* carry the same capture timestamp, also when the clock advances between
\* the constructions of the records.
SameCaptureTimestamp ==
    wdata.kind = "wealth" =>
        \A i \in 1..Len(wrecs), j \in 1..Len(wrecs) : wrecs[i].time = wrecs[j].time

RawFieldOf(rec) == (CHOOSE f \in rec.fields : f[1] = "raw_data")[2]

\* C5: the raw_data field write_raw_portfolio_data stores encodes to at most
\* 65,000 bytes: the first 65,000 bytes of a longer text, the whole of a
\* shorter one, also for texts with characters of more than one byte.
RawFieldWithinByteLimit ==
    \A i \in 1..Len(wrecs) :
        wrecs[i].measurement = "portfolio_raw" =>
            LET stored == RawFieldOf(wrecs[i])
            IN  /\ ByteLen(stored) <= RawFieldLimit
                /\ IsCharPrefix(stored, wdata.text)
                /\ ByteLen(wdata.text) > RawFieldLimit =>
                      ByteLen(stored) = RawFieldLimit
                /\ ByteLen(wdata.text) <= RawFieldLimit => stored = wdata.text

\* C6: a write function that returned True called write_api.flush() after
\* its last record write and before returning, and the flush completed.
TrueOnlyAfterFlush ==
    (wpc = "returned" /\ wret) =>
        /\ Len(wlog) >= 2
        /\ wlog[Len(wlog)] = "flush"
        /\ \A i \in 1..(Len(wlog) - 1) : wlog[i] = "write"

\* a raw write returned True after one write and the flush
RawWriteReturnedTrue ==
    /\ wpc = "returned"
    /\ wret
    /\ wdata.kind = "str"
    /\ wlog = <<"write", "flush">>

\* C7: when one of the store URL, token, org and bucket is unset or empty,
\* the run constructs no InfluxDB client, attempts no connection and writes
\* no record, while the result was obtained and printed and the run ends
\* without a fatal error (exit status 0).
IncompleteStoreConfigSkipsPersistence ==
    influxConfig = "incomplete" =>
        /\ client = "None"
        /\ write_api = "None"
        /\ ~Has(trace, "InfluxDBClient()")
        /\ ~Has(trace, "InfluxDBClient() raised")
        /\ ~Has(trace, "write")
        /\ ~Has(trace, "write failed")
        /\ submitted = <<>>
        /\ wpc = "idle"
        /\ Truthy(portfolio_data)
        /\ printed
        /\ exc = "none"
        /\ fatal = "none"
        /\ pc = "done" => exitStatus = 0

\* a run with an incomplete store configuration has ended
IncompleteStoreConfigRunEnded ==
    /\ influxConfig = "incomplete"
    /\ pc = "done"
    /\ printed
    /\ exitStatus = 0
    /\ Has(trace, "browser.close")

\* C8: a fatal configuration error (target URL missing, credential
\* missing, failed liveness probe) ends the process with a non-zero exit
\* status, before any browser is created or any agent run begins.
FatalConfigErrorExitsNonZero ==
    fatal # "none" =>
        /\ ~Has(trace, "Browser()")
        /\ ~Has(trace, "agent.run raw")
        /\ ~Has(trace, "agent.run structured")
        /\ pc = "done" => exitStatus # 0

\* C9: whenever the liveness probe does not succeed, create_browser
\* constructs no Browser and the run makes no agent run (no page load, no
\* model call).
FailedProbeCreatesNoBrowser ==
    probeResult \in {"False", "raise"} =>
        /\ browser = "None"
        /\ ~Has(trace, "Browser()")
        /\ ~Has(trace, "agent.run raw")
        /\ ~Has(trace, "agent.run structured")
        /\ pc \in {"probe_done", "outer_except", "outer_finally", "exit", "done"}

\* a run whose probe answered HTTP 500 has exited with status 1
ProbeFailureEndedRun ==
    /\ probe = "500"
    /\ pc = "done"
    /\ exitStatus = 1
    /\ browser = "None"

\* C10: check_debug_chrome_connection reports success if and only if the
\* probe answered HTTP 200 with a JSON body that has the browser field.
ProbeSuccessIffBrowserField ==
    pc = "probe_done" => (probeResult = "True" <=> probe = "200_browser_field")

\* fetch_portfolio_data has returned to run_portfolio_scraper
Received ==
    \/ "No portfolio data found" \in report
    \/ "Portfolio data fetched successfully" \in report

\* fetch_raw_portfolio_data with an agent run that raised
RawFailure == FetchRawPortfolioData([raised |-> TRUE, final |-> PyNone])

\* C11: a raw extraction that ended with the empty final result gives the
\* caller of fetch_portfolio_data, in mode raw and in mode both, a value
\* that differs from the one a raw extraction that raised gives it.
EmptyRawDistinctFromFailure ==
    (Received /\ data_type \in {"raw", "both"} /\ rawRes = PyStr(<<>>)) =>
        portfolio_data # FetchPortfolioDataResult(data_type, RawFailure, structRes)

\* C12: in mode raw, when the agent returned the empty string, the run
\* reports that no data was found, never calls init_client or a write
\* function, closes the browser and ends with exit status 0.
EmptyRawResultSkipsPersistence ==
    (data_type = "raw" /\ rawRes = PyStr(<<>>)) =>
        /\ influxConfig = "unread"
        /\ client = "None"
        /\ wpc = "idle"
        /\ submitted = <<>>
        /\ \A i \in 1..Len(trace) :
             trace[i] \in {"probe", "Browser()", "fetch_portfolio_data",
                          "agent.run raw", "agent.run raw ended", "browser.close"}
        /\ pc # "fetch_return" => "No portfolio data found" \in report
        /\ RunEnded => (Count(trace, "browser.close") = 1 /\ exc = "none")
        /\ pc = "done" => exitStatus = 0

\* a run in mode raw whose agent returned "" has ended with status 0
EmptyRawRunEnded ==
    /\ data_type = "raw"
    /\ rawRes = PyStr(<<>>)
    /\ pc = "done"
    /\ exitStatus = 0
    /\ "No portfolio data found" \in report
    /\ Count(trace, "browser.close") = 1

\* C13: in mode both the value fetch_portfolio_data returns tells the four
\* outcomes apart (a pair, the raw text alone, the Wealth alone, None) and
\* holds exactly the payloads the two extractions produced.
BothModeOutcomesDistinct ==
    (data_type = "both" /\ Received) =>
        /\ (portfolio_data.kind = "tuple") <=> (Truthy(rawRes) /\ Truthy(structRes))
        /\ (portfolio_data.kind = "str") <=> (Truthy(rawRes) /\ ~Truthy(structRes))
        /\ (portfolio_data.kind = "wealth") <=> (~Truthy(rawRes) /\ Truthy(structRes))
        /\ (portfolio_data.kind = "none") <=> (~Truthy(rawRes) /\ ~Truthy(structRes))
        /\ portfolio_data.kind \in {"tuple", "str"} => portfolio_data.text = rawRes.text
        /\ portfolio_data.kind \in {"tuple", "wealth"} =>
              portfolio_data.wealth = structRes.wealth

\* in mode both the raw extraction raised and the Wealth alone came back
OnlyStructuredCameBack ==
    /\ data_type = "both"
    /\ Received
    /\ "Error fetching raw portfolio data" \in report
    /\ portfolio_data.kind = "wealth"
    /\ Len(portfolio_data.wealth.top_5_holdings) = 2

\* every member of the document is there
DocComplete(d) ==
    /\ d.top_5_holdings.present
    /\ d.net_worth.present
    /\ d.top_5_platforms.present
    /\ d.net_worth.net_worth.t # "absent"
    /\ d.net_worth.sol_equivalent.t # "absent"
    /\ \A i \in 1..Len(d.top_5_holdings.items) :
         /\ d.top_5_holdings.items[i].asset.t # "absent"
         /\ d.top_5_holdings.items[i].value.t # "absent"
         /\ d.top_5_holdings.items[i].percentage.t # "absent"
    /\ \A i \in 1..Len(d.top_5_platforms.items) :
         /\ d.top_5_platforms.items[i].platform.t # "absent"
         /\ d.top_5_platforms.items[i].value.t # "absent"
         /\ d.top_5_platforms.items[i].percentage.t # "absent"

\* every member of the document has the JSON type the schema declares
DocWellTyped(d) ==
    /\ d.net_worth.net_worth.t \in {"number", "numeric string"}
    /\ d.net_worth.sol_equivalent.t \in {"number", "numeric string"}
    /\ \A i \in 1..Len(d.top_5_holdings.items) :
         /\ d.top_5_holdings.items[i].asset.t = "string"
         /\ d.top_5_holdings.items[i].value.t \in {"number", "numeric string"}
         /\ d.top_5_holdings.items[i].percentage.t \in {"number", "numeric string"}
    /\ \A i \in 1..Len(d.top_5_platforms.items) :
         /\ d.top_5_platforms.items[i].platform.t = "string"
         /\ d.top_5_platforms.items[i].value.t \in {"number", "numeric string"}
         /\ d.top_5_platforms.items[i].percentage.t \in {"number", "numeric string"}

\* the Wealth holds every member of the document
WealthHoldsAll(w, d) ==
    /\ Len(w.top_5_holdings) = Len(d.top_5_holdings.items)
    /\ Len(w.top_5_platforms) = Len(d.top_5_platforms.items)
    /\ w.net_worth.net_worth = d.net_worth.net_worth.v
    /\ w.net_worth.sol_equivalent = d.net_worth.sol_equivalent.v
    /\ \A i \in 1..Len(w.top_5_holdings) :
         /\ w.top_5_holdings[i].asset = d.top_5_holdings.items[i].asset.s
         /\ w.top_5_holdings[i].value = d.top_5_holdings.items[i].value.v
         /\ w.top_5_holdings[i].percentage = d.top_5_holdings.items[i].percentage.v
    /\ \A i \in 1..Len(w.top_5_platforms) :
         /\ w.top_5_platforms[i].platform = d.top_5_platforms.items[i].platform.s
         /\ w.top_5_platforms[i].value = d.top_5_platforms.items[i].value.v
         /\ w.top_5_platforms[i].percentage = d.top_5_platforms.items[i].percentage.v

\* fetch_structured_portfolio_data has just returned
StructuredReturned == pc = "fetch_return" /\ data_type # "raw"

\* C14: fetch_structured_portfolio_data returns a Wealth that holds the
\* whole of a complete, well-typed final result, or None; an exception of
\* the run, an empty result, a text that is no JSON and a document that
\* fails validation give None, never a partly filled Wealth; the agent loop
\* runs once per call.
StructuredResultWholeOrNone ==
    /\ Count(trace, "agent.run structured") <= 1
    /\ StructuredReturned =>
        /\ Count(trace, "agent.run structured") = 1
        /\ structRes.kind \in {"none", "wealth"}
        /\ structRes.kind = "wealth" =>
              /\ result.kind = "json"
              /\ DocComplete(result.doc)
              /\ DocWellTyped(result.doc)
              /\ WealthHoldsAll(structRes.wealth, result.doc)
              /\ "Error fetching structured portfolio data" \notin report
        /\ result.kind \in {"none", "empty", "not json"} => structRes = PyNone

\* a final result without net_worth.net_worth was turned into None
IncompleteDocumentGaveNone ==
    /\ StructuredReturned
    /\ result.kind = "json"
    /\ result.doc.net_worth.net_worth.t = "absent"
    /\ structRes = PyNone
    /\ Count(trace, "agent.run structured") = 1

\* fetch_portfolio_data has run its extractions
Fetched == pc = "fetch_return" \/ Received

\* C15: in mode both the raw extraction runs to its end first and the
\* structured one is then attempted once, whatever the raw one gave; no extraction is run
\* a second time.
BothModeRunsEachExtractionOnce ==
    /\ Count(trace, "agent.run raw") <= 1
    /\ Count(trace, "agent.run structured") <= 1
    /\ (data_type = "both" /\ Fetched) =>
          \E i \in 1..Len(trace), j \in 1..Len(trace) :
              /\ i < j
              /\ trace[i] = "agent.run raw ended"
              /\ trace[j] = "agent.run structured"

\* in mode both the structured extraction ran after a raw one that raised
StructuredRanAfterRawFailure ==
    /\ data_type = "both"
    /\ pc = "fetch_return"
    /\ "Error fetching raw portfolio data" \in report
    /\ trace = <<"probe", "Browser()", "fetch_portfolio_data", "agent.run raw",
                "agent.run raw ended", "agent.run structured",
                "agent.run structured ended">>

\* the write stage of a run with an initialised client is over
WritesOver ==
    /\ ClientReady(client, write_api, bucket)
    /\ pc \in {"inner_finally", "outer_finally", "exit", "done"}

\* the raw write of a run that made both writes ended with a flush
RawCallFlushed ==
    \E i \in 1..(Len(trace) - 1) :
        trace[i] = "flush" /\ trace[i + 1] = "write_portfolio_data(Wealth)"

\* the last write call ended with a flush
LastCallFlushed ==
    \E i \in 1..Len(trace) :
        /\ trace[i] = "flush"
        /\ \A j \in (i + 1)..Len(trace) :
              trace[j] \in {"write_api.close", "client.close", "browser.close"}

\* C16: with an initialised client the run calls write_portfolio_data once
\* for each payload it obtained; with both payloads the structured write is
\* called whatever the raw write returned, and the four combinations of the
\* two results are reported by four different messages.
OneWritePerPayload ==
    WritesOver =>
        /\ Count(trace, "write_portfolio_data(str)") = (IF Truthy(raw_data) THEN 1 ELSE 0)
        /\ Count(trace, "write_portfolio_data(Wealth)") =
              (IF Truthy(structured_data) THEN 1 ELSE 0)
        /\ Count(trace, "write_portfolio_data(other)") = 0
        /\ (Truthy(raw_data) /\ Truthy(structured_data)) =>
              /\ ("Both raw and structured portfolio data written to InfluxDB" \in report)
                    <=> (RawCallFlushed /\ LastCallFlushed)
              /\ ("Only raw portfolio data written to InfluxDB" \in report)
                    <=> (RawCallFlushed /\ ~LastCallFlushed)
              /\ ("Only structured portfolio data written to InfluxDB" \in report)
                    <=> (~RawCallFlushed /\ LastCallFlushed)
              /\ ("Failed to write portfolio data to InfluxDB" \in report)
                    <=> (~RawCallFlushed /\ ~LastCallFlushed)

\* the raw write failed, the structured write was made and succeeded
OnlyStructuredWritten ==
    /\ pc = "done"
    /\ "Only structured portfolio data written to InfluxDB" \in report
    /\ Count(trace, "write_portfolio_data(str)") = 1
    /\ Count(trace, "write_portfolio_data(Wealth)") = 1
    /\ Has(trace, "write failed")

\* C17: within one structured write the failure of a holding record does
\* not abort the sibling writes: every platform record of the payload is
\* still submitted.
HoldingFailureKeepsPlatforms ==
    (/\ wpc = "returned"
     /\ wdata.kind = "wealth"
     /\ Len(wlog) \in 2..(1 + Len(wdata.wealth.top_5_holdings))
     /\ wlog[Len(wlog)] = "write failed") =>
        \A j \in 1..Len(wdata.wealth.top_5_platforms) :
            \E i \in 1..Len(wrecs) :
                /\ wrecs[i].measurement = "portfolio_platform"
                /\ wrecs[i].tags = {<<"platform", wdata.wealth.top_5_platforms[j].platform>>}

\* C18: in every run that constructed an InfluxDB client, the client is
\* closed before the run ends, and so is its write handle when one was
\* created, whatever the outcome.
ClientAndHandleClosed ==
    (RunEnded /\ Has(trace, "InfluxDBClient()")) =>
        /\ Count(trace, "client.close") = 1
        /\ Has(trace, "client.write_api()") => Count(trace, "write_api.close") = 1

\* C19: a Wealth accepted by validation has at most 5 holdings and at most
\* 5 platforms, and a structured write submits at most 11 records.
AcceptedWealthWithinFive ==
    /\ structRes.kind = "wealth" =>
          /\ Len(structRes.wealth.top_5_holdings) <= 5
          /\ Len(structRes.wealth.top_5_platforms) <= 5
    /\ wdata.kind = "wealth" => Len(wrecs) <= 11

\* every member is there and every `float` member is a JSON number, every
\* name a JSON string
DocConforms(d) ==
    /\ DocComplete(d)
    /\ d.net_worth.net_worth.t = "number"
    /\ d.net_worth.sol_equivalent.t = "number"
    /\ \A i \in 1..Len(d.top_5_holdings.items) :
         /\ d.top_5_holdings.items[i].asset.t = "string"
         /\ d.top_5_holdings.items[i].value.t = "number"
         /\ d.top_5_holdings.items[i].percentage.t = "number"
    /\ \A i \in 1..Len(d.top_5_platforms.items) :
         /\ d.top_5_platforms.items[i].platform.t = "string"
         /\ d.top_5_platforms.items[i].value.t = "number"
         /\ d.top_5_platforms.items[i].percentage.t = "number"

\* C20: validation rejects every document that lacks a required member or
\* whose value or percentage is no number, a number written as a string
\* included; for such a result fetch_structured_portfolio_data returns None.
OffSchemaResultRejected ==
    (StructuredReturned /\ result.kind = "json" /\ ~DocConforms(result.doc)) =>
        structRes = PyNone

\* record i of a structured write of w, in the order net worth, holdings,
\* platforms, without its timestamp
ExpectedRecord(w, i) ==
    LET H == Len(w.top_5_holdings) IN
    IF i = 1
    THEN [measurement |-> "portfolio", tags |-> {},
          fields |-> {<<"net_worth", w.net_worth.net_worth>>,
                      <<"sol_equivalent", w.net_worth.sol_equivalent>>}]
    ELSE IF i <= 1 + H
    THEN [measurement |-> "portfolio_holding",
          tags |-> {<<"asset", w.top_5_holdings[i - 1].asset>>},
          fields |-> {<<"value", w.top_5_holdings[i - 1].value>>,
                      <<"percentage", w.top_5_holdings[i - 1].percentage>>}]
    ELSE [measurement |-> "portfolio_platform",
          tags |-> {<<"platform", w.top_5_platforms[i - 1 - H].platform>>},
          fields |-> {<<"value", w.top_5_platforms[i - 1 - H].value>>,
                      <<"percentage", w.top_5_platforms[i - 1 - H].percentage>>}]

\* C25: when the k-th record write of a structured payload fails, the call
\* has submitted exactly the first k-1 records, submits no later record,
\* does not flush and returns False; the k-1 records stay written.
FirstFailureAbortsBatch ==
    (wdata.kind = "wealth" /\ Has(wlog, "write failed")) =>
        LET k == CHOOSE i \in 1..Len(wlog) :
                    /\ wlog[i] = "write failed"
                    /\ \A j \in 1..(i - 1) : wlog[j] # "write failed"
        IN  /\ Len(wlog) = k
            /\ Len(wrecs) = k - 1
            /\ \A i \in 1..(k - 1) :
                 /\ wrecs[i].measurement = ExpectedRecord(wdata.wealth, i).measurement
                 /\ wrecs[i].tags = ExpectedRecord(wdata.wealth, i).tags
                 /\ wrecs[i].fields = ExpectedRecord(wdata.wealth, i).fields
            /\ submitted = wrecs
            /\ wpc = "returned"
            /\ wret = FALSE

\* the write of the second holding failed: False, with two records written
ThirdWriteFailedTwoWritten ==
    /\ wpc = "returned"
    /\ ~wret
    /\ wdata.kind = "wealth"
    /\ Len(wdata.wealth.top_5_holdings) = 2
    /\ Len(wdata.wealth.top_5_platforms) = 1
    /\ wlog = <<"write", "write", "write failed">>
    /\ Len(submitted) = 2

\* the call has no write handle, no bucket, or no payload to write
NothingToWriteWith ==
    \/ wapi = "None"
    \/ wbucket \in {"None", ""}
    \/ wdata.kind = "none"
    \/ wdata.kind = "str" /\ wdata.text = <<>>
    \/ wdata.kind = "other"

\* C26: a write function called without a write handle, without a bucket or
\* with an empty payload, and write_portfolio_data called with a payload
\* that is neither a Wealth nor a string, return False with no record
\* submitted and no flush.
GuardedCallWritesNothing ==
    (NothingToWriteWith /\ wpc # "enter") =>
        /\ wpc = "returned"
        /\ wret = FALSE
        /\ wlog = <<>>
        /\ wrecs = <<>>
        /\ submitted = <<>>

\* a Wealth handed over with a write handle and an empty bucket name
NoBucketCallReturnedFalse ==
    /\ wpc = "returned"
    /\ ~wret
    /\ wdata.kind = "wealth"
    /\ wapi = "write_api"
    /\ wbucket = ""
    /\ wlog = <<>>

AgentStarts == {"agent.run raw", "agent.run structured"}
AgentEnds == {"agent.run raw ended", "agent.run structured ended"}

\* the event that ends the agent run that event e started
EndOf(e) == IF e = "agent.run raw" THEN "agent.run raw ended"
            ELSE "agent.run structured ended"

\* C21: extraction and persistence failures never crash the run: it
\* returns normally and the process exits with status 0, the exit raised by
\* a failed liveness probe being the only abnormal end.
FailuresNeverCrash ==
    /\ RunEnded => (exc = "none" \/ (exc = "SystemExit" /\ probeResult = "False"))
    /\ pc = "done" => (exitStatus = 0 \/ probeResult = "False")
    /\ (pc = "done" /\ Has(trace, "Browser()")) => exitStatus = 0

\* a run whose raw agent run raised, whose write failed and whose
\* browser.close() raised has exited with status 0
FailedRunExitedZero ==
    /\ pc = "done"
    /\ exitStatus = 0
    /\ "Error fetching raw portfolio data" \in report
    /\ "Failed to write portfolio data to InfluxDB" \in report
    /\ "Error closing browser connection" \in report

\* C22: the session has one holder at a time: one fetch_portfolio_data call
\* per acquired session, every agent run starts after the session was
\* acquired and ends before the next one starts and before browser.close(),
\* and no agent run closes the session.
SingleSessionHolder ==
    /\ Count(trace, "fetch_portfolio_data") <= 1
    /\ (RunEnded /\ Has(trace, "Browser()")) => Count(trace, "fetch_portfolio_data") = 1
    /\ Count(trace, "browser.close") <= 1
    /\ \A i \in 1..Len(trace) :
         trace[i] \in AgentStarts =>
            /\ \E b \in 1..(i - 1) : trace[b] = "Browser()"
            /\ \E f \in 1..(i - 1) : trace[f] = "fetch_portfolio_data"
            /\ i < Len(trace) => trace[i + 1] = EndOf(trace[i])
            /\ i = Len(trace) => pc \in {"raw_running", "structured_running"}
    /\ \A i \in 1..Len(trace) :
         trace[i] \in AgentEnds => (i > 1 /\ EndOf(trace[i - 1]) = trace[i]
                                        /\ trace[i - 1] \in AgentStarts)
    /\ \A c \in 1..Len(trace) :
         trace[c] = "browser.close" =>
            \A j \in (c + 1)..Len(trace) : trace[j] \notin AgentStarts \cup AgentEnds

\* a run in mode both has ended after two agent runs and one close
TwoAgentRunsThenClose ==
    /\ pc = "done"
    /\ data_type = "both"
    /\ Has(trace, "agent.run raw ended")
    /\ Has(trace, "agent.run structured ended")
    /\ Count(trace, "browser.close") = 1

\* C24: the run goes through its stages in a fixed order: configuration and
\* model handles before the probe, the successful probe before Browser(),
\* the end of extraction before any InfluxDB client, every record write
\* after extraction and before browser.close(), and browser.close() last.
StagesInOrder ==
    /\ Has(trace, "probe") => (portfolio_url = "url" /\ llms = "models")
    /\ \A i \in 1..Len(trace) :
         trace[i] = "Browser()" =>
            (i > 1 /\ trace[i - 1] = "probe" /\ probeResult = "True")
    /\ \A i \in 1..Len(trace) :
         trace[i] \in {"InfluxDBClient()", "InfluxDBClient() raised",
                       "write", "write failed", "flush", "flush failed"} =>
            /\ \E j \in 1..(i - 1) : trace[j] \in AgentEnds
            /\ \A j \in (i + 1)..Len(trace) : trace[j] \notin AgentStarts \cup AgentEnds
            /\ \A j \in 1..(i - 1) : trace[j] # "browser.close"
    /\ \A i \in 1..Len(trace) : trace[i] = "browser.close" => i = Len(trace)

\* a run that wrote records has ended, browser.close() being its last action
WroteThenClosedBrowserLast ==
    /\ pc = "done"
    /\ Has(trace, "write")
    /\ Has(trace, "client.close")
    /\ trace[Len(trace)] = "browser.close"

\* C23: in the legacy script src/main.py, main() closes the browser session
\* whatever happened: a Wealth came back, nothing came back, the agent run
\* or the validation raised, or write_portfolio_data raised.
LegacyBrowserClosedRegardless ==
    (pc = "done" /\ Has(trace, "Browser()")) => Count(trace, "browser.close") = 1

====
